---- MODULE Spec2Model ----
(***************************************************************************)
(* Model of resample.py: resample_dataframe (the resampling of one         *)
(* irregular series onto the regular grid) and main (one resampled column  *)
(* per input file, concatenated on the shared grid).                       *)
(*                                                                         *)
(* Numbers.  A time or a value that the program holds as a float is held   *)
(* here as an integer count of 10^-(DECIMAL_POINTS+1), one decimal finer   *)
(* than the program's fixed point, so that 0.0002 is 20 and 0.00021 is 21. *)
(* An index label (after line 33) is an integer count of 10^-4.  A cell of *)
(* the value column is a fraction [n, d] of such counts, d = 0 being NaN.  *)
(***************************************************************************)
EXTENDS Integers, Sequences, FiniteSets, TLC

VARIABLES pc, dataframe, df, max_value, step, method, pass, file_list, frames, result

vars == <<pc, dataframe, df, max_value, step, method, pass, file_list, frames, result>>

(***************************************************************************)
(* Program constants                                                       *)
(***************************************************************************)
DECIMAL_POINTS == 4

precision == 10^DECIMAL_POINTS

\* how many of the model's finest counts make 1.0
Unit == 10 * precision

\* the finest counts in one count of the rounding target (10^-DECIMAL_POINTS)
Ulp == Unit \div precision

(***************************************************************************)
(* Bounds of the model                                                     *)
(***************************************************************************)
\* longest irregular sample list handed to resample_dataframe
MaxSamples == 2

\* grid ticks of the widest horizon
HorizonTicks == 4

\* longest sample list of one input file of main
MaxRows == 1

(***************************************************************************)
(* Values                                                                  *)
(***************************************************************************)
NaN == [n |-> 0, d |-> 0]

IsNaN(v) == v.d = 0

Num(k) == [n |-> k, d |-> 1]

Abs(k) == IF k < 0 THEN -k ELSE k

SetMin(S) == CHOOSE x \in S : \A y \in S : x <= y

SetMax(S) == CHOOSE x \in S : \A y \in S : x >= y

RECURSIVE SortedSeq(_)
SortedSeq(S) == IF S = {} THEN <<>> ELSE <<SetMin(S)>> \o SortedSeq(S \ {SetMin(S)})

RECURSIVE SelectIdx(_, _, _)
SelectIdx(s, S, i) ==
    IF i > Len(s) THEN <<>>
    ELSE (IF i \in S THEN <<s[i]>> ELSE <<>>) \o SelectIdx(s, S, i + 1)

(***************************************************************************)
(* resample_dataframe, stage by stage                                      *)
(***************************************************************************)
\* line 32: drop_duplicates('time', keep='last') compares the float times as
\* they are; of equal times the last row stays, the order of rows is kept
DropDuplicates(rows) ==
    SelectIdx(rows,
              {i \in DOMAIN rows :
                   \A j \in DOMAIN rows : j > i => rows[j].time # rows[i].time},
              1)

\* Decimals k/10^4, k < 100, whose double product with 10^4 falls just below
\* k: 0.0003 * 10000 = 2.9999999999999996, 0.0006 * 10000 = 5.999999999999999
ShortProducts == {3, 6, 12, 24, 29, 48, 58, 93, 96}

\* line 33: mul(precision) is a double product and astype(int) cuts it
\* towards zero
ScaleTime(t) ==
    LET m == (Abs(t) * precision) \div Unit
        exact == (Abs(t) * precision) % Unit = 0
        cut == IF exact /\ m \in ShortProducts THEN m - 1 ELSE m
    IN  IF t < 0 THEN -cut ELSE cut

\* lines 33-34: the time column scaled, then made the index
SetIndex(rows) ==
    [i \in DOMAIN rows |-> [time |-> ScaleTime(rows[i].time), value |-> rows[i].value]]

\* line 36: np.arange(0, max_value*precision, step*precision) has
\* ceil(max_value/step) ticks, the multiples of step*precision from 0 on
RegularTicks(mx, st) ==
    {k * ((st * precision) \div Unit) : k \in 0 .. ((mx + st - 1) \div st) - 1}

Labels(rows) == {rows[i].time : i \in DOMAIN rows}

HasDuplicateLabels(rows) ==
    \E i, j \in DOMAIN rows : i # j /\ rows[i].time = rows[j].time

ValueAt(rows, t) ==
    IF \E i \in DOMAIN rows : rows[i].time = t
    THEN rows[CHOOSE i \in DOMAIN rows : rows[i].time = t].value
    ELSE NaN

\* lines 36-38: the sorted union of the sample labels and the ticks; reindex
\* raises ValueError on a frame whose own index has a label twice
Reindex(rows, mx, st) ==
    IF HasDuplicateLabels(rows)
    THEN [error |-> "ValueError", frame |-> <<>>]
    ELSE LET new_index == SortedSeq(Labels(rows) \cup RegularTicks(mx, st))
         IN  [error |-> "none",
              frame |-> [i \in DOMAIN new_index |->
                             [time |-> new_index[i],
                              value |-> ValueAt(rows, new_index[i])]]]

SupportedMethods == {"linear", "slinear"}

Valid(rows) == {i \in DOMAIN rows : ~IsNaN(rows[i].value)}

\* a faulty variant of XAxis: every method takes the rows as equally spaced
XAxisByPosition(rows, m, i) == i

\* the x axis of the interpolation: 'linear' ignores the index and takes the
\* rows as equally spaced, 'slinear' takes the index labels
XAxis(rows, m, i) == IF m = "linear" THEN i ELSE rows[i].time

\* one missing cell: between two observed cells the straight line over the
\* x axis; before the first observed cell it stays missing; after the last
\* one np.interp ('linear') repeats the last value and interp1d ('slinear')
\* gives NaN
InterpolateCell(rows, m, i) ==
    LET before == {j \in Valid(rows) : j < i}
        after == {j \in Valid(rows) : j > i}
    IN  IF before = {} THEN NaN
        ELSE IF after = {}
             THEN (IF m = "linear" THEN rows[SetMax(before)].value ELSE NaN)
             ELSE LET a == SetMax(before)
                      b == SetMin(after)
                      xa == XAxis(rows, m, a)
                      xb == XAxis(rows, m, b)
                      x == XAxis(rows, m, i)
                      va == rows[a].value.n
                      vb == rows[b].value.n
                  IN  [n |-> va * (xb - xa) + (vb - va) * (x - xa), d |-> xb - xa]

InterpolateFrame(rows, m) ==
    [i \in DOMAIN rows |->
        IF i \in Valid(rows) THEN rows[i]
        ELSE [time |-> rows[i].time, value |-> InterpolateCell(rows, m, i)]]

\* a faulty variant of Interpolate: an unsupported method name leaves the frame as it is
InterpolateLenient(rows, m) ==
    IF Valid(rows) = {} \/ Valid(rows) = DOMAIN rows \/ m \notin SupportedMethods
    THEN [error |-> "none", frame |-> rows]
    ELSE IF m = "slinear" /\ Cardinality(Valid(rows)) < 2
    THEN [error |-> "ValueError", frame |-> <<>>]
    ELSE [error |-> "none", frame |-> InterpolateFrame(rows, m)]

\* a faulty variant of Interpolate: fewer than two observed cells raise under any method
InterpolateNeedsData(rows, m) ==
    IF m \notin SupportedMethods \/ Cardinality(Valid(rows)) < 2
    THEN [error |-> "ValueError", frame |-> <<>>]
    ELSE [error |-> "none", frame |-> InterpolateFrame(rows, m)]

\* line 40: an unsupported method name raises ValueError whatever the data; a
\* column with no missing or no observed cell is returned as it is; interp1d
\* ('slinear') raises ValueError on fewer than two observed cells
Interpolate(rows, m) ==
    IF m \notin SupportedMethods
    THEN [error |-> "ValueError", frame |-> <<>>]
    ELSE IF Valid(rows) = {} \/ Valid(rows) = DOMAIN rows
    THEN [error |-> "none", frame |-> rows]
    ELSE IF m = "slinear" /\ Cardinality(Valid(rows)) < 2
    THEN [error |-> "ValueError", frame |-> <<>>]
    ELSE [error |-> "none", frame |-> InterpolateFrame(rows, m)]

\* a faulty variant of FillEdges: no bfill
FFillOnly(rows) ==
    [i \in DOMAIN rows |->
        LET before == {j \in Valid(rows) : j <= i}
        IN  [time |-> rows[i].time,
             value |-> IF before = {} THEN NaN ELSE rows[SetMax(before)].value]]

FFill(rows) ==
    [i \in DOMAIN rows |->
        LET before == {j \in Valid(rows) : j <= i}
        IN  [time |-> rows[i].time,
             value |-> IF before = {} THEN NaN ELSE rows[SetMax(before)].value]]

BFill(rows) ==
    [i \in DOMAIN rows |->
        LET after == {j \in Valid(rows) : j >= i}
        IN  [time |-> rows[i].time,
             value |-> IF after = {} THEN NaN ELSE rows[SetMin(after)].value]]

\* line 41: ffill, then bfill
FillEdges(rows) == BFill(FFill(rows))

\* round to DECIMAL_POINTS decimals, a tie to the even neighbour
Round4(v) ==
    IF IsNaN(v) THEN NaN
    ELSE LET D == v.d * Ulp
             q == v.n \div D
             r == v.n - q * D
             up == IF 2 * r > D \/ (2 * r = D /\ q % 2 = 1) THEN 1 ELSE 0
         IN  Num((q + up) * Ulp)

\* line 42
RoundFrame(rows) ==
    [i \in DOMAIN rows |-> [time |-> rows[i].time, value |-> Round4(rows[i].value)]]

\* lines 44-48: the rows whose label is a multiple of int(step*precision),
\* the label divided back by precision
FilterRegular(rows, mx, st) ==
    LET keep == {i \in DOMAIN rows : rows[i].time % ScaleTime(st) = 0}
        kept == SelectIdx(rows, keep, 1)
    IN  [i \in DOMAIN kept |-> [time |-> kept[i].time * Ulp, value |-> kept[i].value]]

\* lines 22-50, the whole call
ResampleDataframe(rows, mx, st, m) ==
    LET r == Reindex(SetIndex(DropDuplicates(rows)), mx, st)
        s == IF r.error = "none" THEN Interpolate(r.frame, m) ELSE r
    IN  IF s.error = "none"
        THEN [error |-> "none",
              frame |-> FilterRegular(RoundFrame(FillEdges(s.frame)), mx, st)]
        ELSE s

(***************************************************************************)
(* Inputs                                                                  *)
(***************************************************************************)
\* sample times: before 0 (-0.0002, and -0.00005 which is cut to 0), on and
\* off the ticks, two within one fixed-point count (0.0002, 0.00021), two
\* short products (0.0003, 0.0006), and at or beyond the horizon
Times == {-20, -5, 0, 10, 20, 21, 30, 40, 60, 80}

\* sample values: 0.00016 has a fifth decimal
Values == {0, 16, 40}

FourDecimalValues == {v \in Values : v % Ulp = 0}

Samples == [time : Times, value : {Num(v) : v \in Values}]

SeqsUpTo(S, n) == UNION {[1 .. k -> S] : k \in 0 .. n}

Methods == SupportedMethods \cup {"nolinear"}

\* a horizon that is a multiple of the step, and one that is not
GridConfigs ==
    {[step |-> 2 * Ulp, max_value |-> HorizonTicks * 2 * Ulp],
     [step |-> Ulp, max_value |-> HorizonTicks * Ulp - Ulp \div 2]}

GridTimes(mx, st) == {k * st : k \in 0 .. ((mx + st - 1) \div st) - 1}

\* an already regular series: one sample at each tick, in time order, values
\* at four decimals
RegularSeries(mx, st) ==
    LET ticks == SortedSeq(GridTimes(mx, st))
    IN  {[i \in DOMAIN ticks |-> [time |-> ticks[i], value |-> Num(f[i])]] :
             f \in [DOMAIN ticks -> FourDecimalValues]}

NoTable == [written |-> FALSE, columns |-> <<>>, index |-> <<>>, cells |-> <<>>]

(***************************************************************************)
(* resample_dataframe as a state machine: one action per stage             *)
(***************************************************************************)
Init ==
    /\ \E g \in GridConfigs : max_value = g.max_value /\ step = g.step
    /\ method \in Methods
    /\ dataframe \in SeqsUpTo(Samples, MaxSamples) \cup RegularSeries(max_value, step)
    /\ df = dataframe
    /\ pc = "drop_duplicates"
    /\ pass = 1
    /\ file_list = <<>>
    /\ frames = <<>>
    /\ result = NoTable

Keep == UNCHANGED <<dataframe, max_value, step, method, pass, file_list, frames, result>>

DropDuplicatesStep ==
    /\ pc = "drop_duplicates"
    /\ df' = DropDuplicates(df)
    /\ pc' = "set_index"
    /\ Keep

SetIndexStep ==
    /\ pc = "set_index"
    /\ df' = SetIndex(df)
    /\ pc' = "reindex"
    /\ Keep

ReindexStep ==
    /\ pc = "reindex"
    /\ LET r == Reindex(df, max_value, step)
       IN  /\ df' = r.frame
           /\ pc' = IF r.error = "none" THEN "interpolate" ELSE "raised"
    /\ Keep

InterpolateStep ==
    /\ pc = "interpolate"
    /\ LET r == Interpolate(df, method)
       IN  /\ df' = r.frame
           /\ pc' = IF r.error = "none" THEN "fill" ELSE "raised"
    /\ Keep

FillStep ==
    /\ pc = "fill"
    /\ df' = FillEdges(df)
    /\ pc' = "round"
    /\ Keep

RoundStep ==
    /\ pc = "round"
    /\ df' = RoundFrame(df)
    /\ pc' = "filter"
    /\ Keep

FilterStep ==
    /\ pc = "filter"
    /\ df' = FilterRegular(df, max_value, step)
    /\ pc' = "returned"
    /\ Keep

\* the returned series handed to resample_dataframe again, same grid
Regrid ==
    /\ pc = "returned"
    /\ pass = 1
    /\ dataframe' = df
    /\ df' = df
    /\ pass' = 2
    /\ pc' = "drop_duplicates"
    /\ UNCHANGED <<max_value, step, method, file_list, frames, result>>

Next ==
    \/ DropDuplicatesStep
    \/ SetIndexStep
    \/ ReindexStep
    \/ InterpolateStep
    \/ FillStep
    \/ RoundStep
    \/ FilterStep
    \/ Regrid

Spec == Init /\ [][Next]_vars

(***************************************************************************)
(* main: one resampled frame per input file, then the table                *)
(***************************************************************************)
FileLists == {<<"a.csv">>, <<"a.csv", "b.csv">>, <<"b.csv", "a.csv">>}

FileSamples == [time : {0, 10, 40, 80}, value : {Num(0), Num(40)}]

FileContents == SeqsUpTo(FileSamples, MaxRows)

\* line 75: pd.concat(frames, axis=1) joins the frames on the union of
\* their indexes; line 76 names the columns after the files, by position
Concat(fs, names) ==
    LET index == SortedSeq(UNION {Labels(fs[c]) : c \in DOMAIN fs})
    IN  [written |-> TRUE,
         columns |-> [c \in DOMAIN fs |-> names[c]],
         index |-> index,
         cells |-> [c \in DOMAIN fs |->
                       [r \in DOMAIN index |-> ValueAt(fs[c], index[r])]]]

\* main calls resample_dataframe with max_value=3600 and step=0.01 (line 72),
\* 360000 ticks; here it runs on the bounded grids of GridConfigs
InitMain ==
    /\ \E g \in GridConfigs : max_value = g.max_value /\ step = g.step
    /\ method \in Methods
    /\ file_list \in FileLists
    /\ frames = <<>>
    /\ result = NoTable
    /\ dataframe = <<>>
    /\ df = <<>>
    /\ pass = 1
    /\ pc = "loop"

\* lines 70-73: one turn of the loop; an exception of resample_dataframe
\* is not caught and ends main
ReadAndResample ==
    /\ pc = "loop"
    /\ Len(frames) < Len(file_list)
    /\ \E rows \in FileContents :
         LET r == ResampleDataframe(rows, max_value, step, method)
         IN  /\ dataframe' = rows
             /\ IF r.error = "none"
                THEN frames' = Append(frames, r.frame) /\ pc' = "loop"
                ELSE frames' = frames /\ pc' = "aborted"
    /\ UNCHANGED <<df, max_value, step, method, pass, file_list, result>>

\* lines 75-77
ConcatAndWrite ==
    /\ pc = "loop"
    /\ Len(frames) = Len(file_list)
    /\ result' = Concat(frames, file_list)
    /\ pc' = "written"
    /\ UNCHANGED <<dataframe, df, max_value, step, method, pass, file_list, frames>>

NextMain == ReadAndResample \/ ConcatAndWrite

SpecMain == InitMain /\ [][NextMain]_vars

(***************************************************************************)
(* What the claims speak of                                                *)
(***************************************************************************)
Returned == pc = "returned"

Raised == pc = "raised"

\* the samples that count: the last row of each float time, with a value
Obs ==
    {i \in DOMAIN dataframe :
        /\ ~IsNaN(dataframe[i].value)
        /\ \A j \in DOMAIN dataframe : j > i => dataframe[j].time # dataframe[i].time}

\* the grid as index labels
GridLabels == {t \div Ulp : t \in GridTimes(max_value, step)}

OutTimes == Labels(df)

OutValue(t) == ValueAt(df, t)

\* the fixed-point label of a sample
Label(i) == ScaleTime(dataframe[i].time)

\* the point at x of the straight line through (x1, v1) and (x2, v2)
Line(x1, v1, x2, v2, x) ==
    [n |-> v1.n * (x2 - x1) + (v2.n - v1.n) * (x - x1), d |-> x2 - x1]

\* C1 (as claimed): the ticks of the returned series are exactly the grid
\* 0, step, 2*step, ... below max_value, whatever the sample times
C1_GridExactness == Returned => OutTimes = GridTimes(max_value, step)

\* C2 (as claimed): when two samples less than 10^-4 apart scale to the same
\* integer at 10^4 the call completes (here under 'linear') and returns what
\* it returns for the input without the earlier of them
LaterOnly(rows) ==
    SelectIdx(rows,
              {i \in DOMAIN rows :
                   \A j \in DOMAIN rows :
                       j > i => ScaleTime(rows[j].time) # ScaleTime(rows[i].time)},
              1)

C2_Deduplication ==
    (/\ method = "linear"
     /\ \E i, j \in DOMAIN dataframe :
            /\ i < j
            /\ Label(i) = Label(j)
            /\ Abs(dataframe[i].time - dataframe[j].time) < Ulp)
    => /\ ~Raised
       /\ Returned =>
              df = ResampleDataframe(LaterOnly(dataframe), max_value, step, method).frame

\* C3 (as claimed): with method 'linear' a tick strictly between two samples
\* that are neighbours in time has the value of the straight line through
\* them in time, rounded to 4 decimals
C3_LinearInTime ==
    (Returned /\ method = "linear") =>
        \A i, j \in Obs : \A t \in GridTimes(max_value, step) :
            (/\ dataframe[i].time < t
             /\ t < dataframe[j].time
             /\ \A k \in Obs : ~(/\ dataframe[i].time < dataframe[k].time
                                /\ dataframe[k].time < dataframe[j].time))
            => OutValue(t) = Round4(Line(dataframe[i].time, dataframe[i].value,
                                         dataframe[j].time, dataframe[j].value, t))

Neighbours(i, j) ==
    /\ i \in Obs
    /\ j \in Obs
    /\ Label(i) < Label(j)
    /\ \A k \in Obs : ~(Label(i) < Label(k) /\ Label(k) < Label(j))

TicksBetween(a, b) == {g \in GridLabels : a < g /\ g < b}

\* C3 (amended): a tick strictly between two samples that are neighbours on
\* the fixed-point time axis has, under 'slinear', the value of the straight
\* line through them over the fixed-point times, and under 'linear' the
\* value of the straight line over the positions (the ticks between the two
\* samples taken as equally spaced), rounded to 4 decimals
C3_InteriorInterpolation ==
    Returned =>
        \A i, j \in DOMAIN dataframe : \A g \in GridLabels :
            (Neighbours(i, j) /\ Label(i) < g /\ g < Label(j))
            => OutValue(g * Ulp) =
                   Round4(IF method = "slinear"
                          THEN Line(Label(i), dataframe[i].value,
                                    Label(j), dataframe[j].value, g)
                          ELSE Line(0, dataframe[i].value,
                                    Cardinality(TicksBetween(Label(i), Label(j))) + 1,
                                    dataframe[j].value,
                                    Cardinality(TicksBetween(Label(i), g)) + 1))

\* witness of C3: 'slinear' returned a series for two samples, the earlier
\* off the grid, with a tick between them whose value is not the midpoint
C3_Witness ==
    /\ Returned
    /\ method = "slinear"
    /\ pass = 1
    /\ Len(dataframe) = 2
    /\ dataframe[2].time = 10 /\ dataframe[2].value = Num(0)
    /\ dataframe[1].time = 40 /\ dataframe[1].value = Num(40)
    /\ step = 2 * Ulp
    /\ OutValue(20) = Num(10)

Earliest(i) == i \in Obs /\ \A k \in Obs : dataframe[i].time <= dataframe[k].time

Latest(i) == i \in Obs /\ \A k \in Obs : dataframe[i].time >= dataframe[k].time

C5_MultiFileAlignment ==
    pc = "written" =>
        /\ Len(result.index) = Cardinality(GridTimes(max_value, step))
        /\ result.columns = file_list

IsRegular(rows) ==
    /\ Len(rows) = Cardinality(GridTimes(max_value, step))
    /\ Labels(rows) = GridTimes(max_value, step)
    /\ \A i \in DOMAIN rows : ~IsNaN(rows[i].value) /\ Round4(rows[i].value) = rows[i].value

\* C6 (as claimed): a series with one sample at every tick and none elsewhere
\* comes back with the same value at every tick, and a returned series
\* resampled again on the same grid comes back unchanged
C6_Idempotence ==
    /\ (IsRegular(dataframe) /\ method \in SupportedMethods /\ (Returned \/ Raised))
           => /\ Returned
              /\ \A i \in DOMAIN dataframe : OutValue(dataframe[i].time) = dataframe[i].value
    /\ (pass = 2 /\ (Returned \/ Raised)) => (Returned /\ df = dataframe)

\* C7: an empty sample set raises nothing under a supported method, and the
\* series returned has one row per grid tick and no other, every value missing
C7_EmptyInput ==
    (dataframe = <<>> /\ method \in SupportedMethods)
    => /\ ~Raised
       /\ Returned =>
              /\ OutTimes = GridTimes(max_value, step)
              /\ Len(df) = Cardinality(GridTimes(max_value, step))
              /\ \A i \in DOMAIN df : IsNaN(df[i].value)

\* witness of C7: the series of an empty sample set is returned
C7_Witness == Returned /\ dataframe = <<>> /\ Len(df) = HorizonTicks

\* C8: under an unsupported method name resample_dataframe raises for every
\* input, and main stops at the first file: no frame is kept, no later file
\* is read, nothing runs after the exception and no table is written
C8_InvalidMethod ==
    method \notin SupportedMethods =>
        /\ \A rows \in FileContents :
               ResampleDataframe(rows, max_value, step, method).error # "none"
        /\ frames = <<>>
        /\ ~result.written
        /\ pc \in {"loop", "aborted"}
        /\ pc = "aborted" => ~ENABLED NextMain

\* witness of C8: main stopped on the first of two files
C8_Witness ==
    /\ pc = "aborted"
    /\ method \notin SupportedMethods
    /\ Len(file_list) = 2
    /\ frames = <<>>
    /\ ~result.written

\* C9 (as claimed): a sample whose time is a grid tick inside the horizon
\* gives the series one row at that tick, holding the sample's own value
\* rounded to 4 decimals
C9_CollisionPrecedence ==
    Returned =>
        \A i \in Obs :
            dataframe[i].time \in GridTimes(max_value, step)
            => /\ Cardinality({k \in DOMAIN df : df[k].time = dataframe[i].time}) = 1
               /\ OutValue(dataframe[i].time) = Round4(dataframe[i].value)

\* C10 (as claimed): a single sample raises nothing under a supported method
\* and every grid tick of the series has its value (to 4 decimals)
C10_SingleSample ==
    (Len(dataframe) = 1 /\ Obs # {} /\ method \in SupportedMethods)
    => /\ ~Raised
       /\ Returned =>
              \A t \in GridTimes(max_value, step) :
                  OutValue(t) = Round4(dataframe[1].value)

====
